---- MODULE Spec2Model ----
(***************************************************************************)
(* Model of the cronosphere backend: the scheduler (scheduler.js) and the  *)
(* jobs router that drives it.  The store (pg pool) holds two tables, jobs *)
(* and job_runs; the scheduler keeps the in-memory map scheduledJobs of    *)
(* live node-cron tasks.  Every `await` of the source is an interleaving   *)
(* point: an action runs one continuation up to and including the query it *)
(* issues next (whose effect on the store, or failure, is taken there).    *)
(***************************************************************************)
EXTENDS Integers, Sequences, FiniteSets, TLC

\* ------------------------------------------------------------------ bounds
MaxJobs == 2          \* rows the jobs serial ever hands out
MaxPersisted == 1     \* rows already in jobs when the process starts
MaxRuns == 3          \* rows the job_runs serial ever hands out
MaxTriggers == 3      \* node-cron tasks alive at once
MaxInvocations == 2   \* runJob invocations per behaviour
MaxInFlight == 1      \* HTTP requests being handled at once
MaxNow == 45          \* last day of the clock
TickDays == 15        \* days the clock advances in one step
MaxBootRows == 3      \* rows in jobs when start-up is checked alone

\* ------------------------------------------------------- program constants
MaxCommandLength == 2000
RetentionDays == 30

\* ------------------------------------------------------------------- text
\* Strings the program inspects are sequences of one-character strings.
SpaceChars == {" ", "\t", "\n"}

IsSpace(c) == c \in SpaceChars

UpperCase == <<"A","B","C","D","E","F","G","H","I","J","K","L","M",
               "N","O","P","Q","R","S","T","U","V","W","X","Y","Z">>

LowerCase == <<"a","b","c","d","e","f","g","h","i","j","k","l","m",
               "n","o","p","q","r","s","t","u","v","w","x","y","z">>

\* Case folding of the /i flag.
Fold(c) ==
  IF \E k \in 1..26 : UpperCase[k] = c
  THEN LowerCase[CHOOSE k \in 1..26 : UpperCase[k] = c]
  ELSE c

\* A regular expression of FORBIDDEN_PATTERNS is a sequence of items:
\* a literal character, "\\s*", "\\s+", "(^|\\s)" or "(\\s|$)".
WsStar == "\\s*"
WsPlus == "\\s+"
StartOrWs == "(^|\\s)"
WsOrEnd == "(\\s|$)"

RECURSIVE MatchFrom(_, _, _, _, _)
\* Does pat[idx..] match s starting at position pos?  ci: the /i flag.
MatchFrom(s, pos, pat, idx, ci) ==
  IF idx > Len(pat) THEN TRUE
  ELSE LET item == pat[idx] IN
    CASE item = WsStar ->
           \/ MatchFrom(s, pos, pat, idx + 1, ci)
           \/ /\ pos <= Len(s)
              /\ IsSpace(s[pos])
              /\ MatchFrom(s, pos + 1, pat, idx, ci)
      [] item = WsPlus ->
           /\ pos <= Len(s)
           /\ IsSpace(s[pos])
           /\ \/ MatchFrom(s, pos + 1, pat, idx + 1, ci)
              \/ MatchFrom(s, pos + 1, pat, idx, ci)
      [] item = StartOrWs ->
           \/ pos = 1 /\ MatchFrom(s, pos, pat, idx + 1, ci)
           \/ /\ pos <= Len(s)
              /\ IsSpace(s[pos])
              /\ MatchFrom(s, pos + 1, pat, idx + 1, ci)
      [] item = WsOrEnd ->
           \/ pos = Len(s) + 1 /\ MatchFrom(s, pos, pat, idx + 1, ci)
           \/ /\ pos <= Len(s)
              /\ IsSpace(s[pos])
              /\ MatchFrom(s, pos + 1, pat, idx + 1, ci)
      [] OTHER ->
           /\ pos <= Len(s)
           /\ (IF ci THEN Fold(s[pos]) = Fold(item) ELSE s[pos] = item)
           /\ MatchFrom(s, pos + 1, pat, idx + 1, ci)

\* RegExp.prototype.test without the sticky flag: a match at any position.
RegexTest(re, s) ==
  \E pos \in 1..(Len(s) + 1) : MatchFrom(s, pos, re.pat, 1, re.ci)

\* The last pattern, /:(){:|:&};:/, is an alternation: the empty group ()
\* matches nothing, so its branches are ":{:" and ":&};:".
FORBIDDEN_PATTERNS ==
  << [pat |-> <<StartOrWs, "s", "u", "d", "o", WsOrEnd>>, ci |-> TRUE],
     [pat |-> <<"r", "m", WsPlus, "-", "r", "f">>, ci |-> TRUE],
     [pat |-> <<":", WsStar, "(", ")", WsStar, "{", WsStar, ":", WsStar, "|",
                WsStar, ":", WsStar, ";", WsStar, "}">>, ci |-> FALSE],
     [pat |-> <<"d", "d", WsPlus, "i", "f", "=">>, ci |-> TRUE],
     [pat |-> <<"m", "k", "f", "s", ".">>, ci |-> TRUE],
     [pat |-> <<":", "{", ":">>, ci |-> FALSE],
     [pat |-> <<":", "&", "}", ";", ":">>, ci |-> FALSE] >>

isForbidden(command) ==
  IF command = <<>> THEN FALSE
  ELSE \E k \in 1..Len(FORBIDDEN_PATTERNS) :
         RegexTest(FORBIDDEN_PATTERNS[k], command)

RECURSIVE TrimStart(_)
TrimStart(s) ==
  IF s # <<>> /\ IsSpace(Head(s)) THEN TrimStart(Tail(s)) ELSE s

RECURSIVE TrimEnd(_)
TrimEnd(s) ==
  IF s # <<>> /\ IsSpace(s[Len(s)])
  THEN TrimEnd(SubSeq(s, 1, Len(s) - 1))
  ELSE s

\* String.prototype.trim
Trim(s) == TrimEnd(TrimStart(s))

NoOutput == <<"(", "n", "o", " ", "o", "u", "t", "p", "u", "t", ")">>

\* ------------------------------------------------------- commands, schedules
EchoHello == <<"e", "c", "h", "o", " ", "h", "i">>
SudoRm == <<"S", "u", "d", "o", " ", "r", "m", " ", "-", "r", "f", " ", "/">>
LongCommand == [i \in 1..(MaxCommandLength + 1) |-> "a"]

\* Commands are named in the state; CommandText is the string itself.
Commands == {"echo hi", "Sudo rm -rf /", "aaa...", ""}

CommandText(c) ==
  CASE c = "echo hi" -> EchoHello
    [] c = "Sudo rm -rf /" -> SudoRm
    [] c = "aaa..." -> LongCommand
    [] OTHER -> <<>>

Schedules == {"* * * * *", "every minute", ""}

\* node-cron's validate: a pure syntax check of the expression.
cronValidate(expression) == expression \in {"* * * * *"}


\* ------------------------------------------------------------------ values
Null == -1                 \* SQL NULL of a timestamp column, JS undefined of runId
NullText == <<"NULL">>     \* SQL NULL of job_runs.output

\* jobs.id as the driver hands it to JS: a number for an int4 (serial) column,
\* a string for an int8 (bigserial) column.  req.params.id is always a string.
\* A Map compares keys by SameValueZero: 1 and "1" are different keys.
JsNumber(n) == [t |-> "number", v |-> n]

JsString(n) == [t |-> "string", v |-> n]

\* What the store reads out of an id parameter, number or numeral string.
DbInt(x) == x.v

\* Outcomes of exec(command, {timeout: 60000}): the callback's err, stdout, stderr.
Outcomes ==
  { [kind |-> "exit0", err |-> FALSE, stdout |-> <<"h", "i", "\n">>, stderr |-> <<>>],
    [kind |-> "exit0", err |-> FALSE, stdout |-> <<>>, stderr |-> <<>>],
    [kind |-> "nonzero", err |-> TRUE, stdout |-> <<>>, stderr |-> <<"n", "o", "\n">>],
    [kind |-> "timeout", err |-> TRUE, stdout |-> <<" ", "h">>, stderr |-> <<>>],
    [kind |-> "notfound", err |-> TRUE, stdout |-> <<>>, stderr |-> <<"?", "\n">>] }

\* err.message of a failed exec: "Command failed: <command>\n<stderr>".
ErrMessage(command, stderr) ==
  <<"Command failed: ">> \o CommandText(command) \o <<"\n">> \o stderr

\* Request bodies of POST /.
Bodies ==
  { [name |-> "nightly", command |-> "echo hi", schedule |-> "* * * * *"],
    [name |-> "nightly", command |-> "Sudo rm -rf /", schedule |-> "* * * * *"],
    [name |-> "nightly", command |-> "aaa...", schedule |-> "* * * * *"],
    [name |-> "nightly", command |-> "echo hi", schedule |-> "every minute"],
    [name |-> "", command |-> "echo hi", schedule |-> "* * * * *"] }

NoBody == [name |-> "", command |-> "", schedule |-> ""]

\* Rows a previous life of the process may have left in jobs.
PersistedRows ==
  [command : {"echo hi"}, schedule : {"* * * * *", "every minute"},
   status : {"active", "paused"}]

\* ------------------------------------------------------------------- state
VARIABLES
  idColumn,       \* type of jobs.id: "int4" or "int8"
  VERBOSE,        \* process.env.VERBOSE_LOGS === 'true'
  now,            \* the clock, in days
  jobs,           \* table jobs: id -> [command, schedule, status]
  jobSeq,         \* next value of the jobs serial
  runs,           \* table job_runs: id -> [job_id, status, output, started_at, finished_at]
  runSeq,         \* next value of the job_runs serial
  triggers,       \* node-cron tasks created and not stopped: handle -> job object
  scheduledJobs,  \* the Map scheduledJobs: key -> handle
  inv,            \* invocations of runJob, in the order they started
  reqs,           \* HTTP requests being handled: slot -> request or Idle
  boot,           \* initScheduler: [pc, rows, loaded, skipped]
  sweep,          \* cleanupOldRuns: [pc, res]
  uncaught        \* promises that rejected with nobody catching

vars == <<idColumn, VERBOSE, now, jobs, jobSeq, runs, runSeq, triggers,
          scheduledJobs, inv, reqs, boot, sweep, uncaught>>

Idle == [kind |-> "idle"]

\* The job object JS gets for row n of jobs.
JobObject(n, row) ==
  [id |-> IF idColumn = "int4" THEN JsNumber(n) ELSE JsString(n),
   command |-> row.command, schedule |-> row.schedule, status |-> row.status]

\* Map.prototype.set
MapSet(map, key, val) ==
  [k \in DOMAIN map \cup {key} |-> IF k = key THEN val ELSE map[k]]

\* Map.prototype.delete
MapDelete(map, key) == [k \in DOMAIN map \ {key} |-> map[k]]

EmptyMap == [k \in {} |-> 0]

Init ==
  /\ idColumn \in {"int4", "int8"}
  /\ VERBOSE \in BOOLEAN
  /\ now = 0
  /\ \E n \in 0..MaxPersisted : jobs \in [1..n -> PersistedRows] /\ jobSeq = n + 1
  /\ runs = EmptyMap
  /\ runSeq = 1
  /\ triggers = EmptyMap
  /\ scheduledJobs = EmptyMap
  /\ inv = <<>>
  /\ reqs = [s \in 1..MaxInFlight |-> Idle]
  /\ boot = [pc |-> "idle", rows |-> <<>>, loaded |-> 0, skipped |-> 0]
  /\ sweep = [pc |-> "idle", res |-> 0]
  /\ uncaught = {}

\* --------------------------------------------------------------- scheduler
\* The scheduler's in-memory state, threaded through its functions.
Sched == [triggers |-> triggers, scheduledJobs |-> scheduledJobs, threw |-> FALSE]

FreeHandle(trg) == CHOOSE h \in 1..(MaxTriggers + 1) :
                     /\ h \notin DOMAIN trg
                     /\ \A g \in 1..(h - 1) : g \in DOMAIN trg

\* What the closure runJob keeps of job (id, command; name is only logged), and
\* the expression of the task that calls it.
Closure(job) == [id |-> job.id, command |-> job.command, schedule |-> job.schedule]

\* node-cron's schedule(expression, callback): a new running task, or an
\* exception for an expression that is not valid.
cronSchedule(expression, callback, trg) ==
  IF cronValidate(expression)
  THEN [task |-> FreeHandle(trg), triggers |-> MapSet(trg, FreeHandle(trg), callback),
        threw |-> FALSE]
  ELSE [task |-> 0, triggers |-> trg, threw |-> TRUE]

\* scheduleJob as it would be without its cron.validate test.
scheduleJobUnvalidated(job, st) ==
  LET c == cronSchedule(job.schedule, Closure(job), st.triggers) IN
  IF c.threw THEN [st EXCEPT !.threw = TRUE]
  ELSE [triggers |-> c.triggers,
        scheduledJobs |-> MapSet(st.scheduledJobs, job.id, c.task),
        threw |-> st.threw]

\* scheduleJob(job) with runNow = false: lines 79-87.  threw: its promise rejected.
scheduleJob(job, st) ==
  IF cronValidate(job.schedule)
  THEN LET c == cronSchedule(job.schedule, Closure(job), st.triggers) IN
       IF c.threw THEN [st EXCEPT !.threw = TRUE]
       ELSE [triggers |-> c.triggers,
             scheduledJobs |-> MapSet(st.scheduledJobs, job.id, c.task),
             threw |-> st.threw]
  ELSE st

\* cancelJob as it would be without scheduledJobs.delete(id).
cancelJobKeepsEntry(id, st) ==
  IF id \in DOMAIN st.scheduledJobs
  THEN [triggers |-> MapDelete(st.triggers, st.scheduledJobs[id]),
        scheduledJobs |-> st.scheduledJobs,
        threw |-> st.threw]
  ELSE st

\* cancelJob(id): lines 89-98.
cancelJob(id, st) ==
  IF id \in DOMAIN st.scheduledJobs
  THEN [triggers |-> MapDelete(st.triggers, st.scheduledJobs[id]),
        scheduledJobs |-> MapDelete(st.scheduledJobs, id),
        threw |-> st.threw]
  ELSE st

\* Room for k more live tasks.
TriggerRoom(k) == Cardinality(DOMAIN triggers) + k <= MaxTriggers

\* ------------------------------------------------------------------ engine
\* The synchronous start of runJob (lines 19-31): the INSERT is issued and
\* either creates the row or fails.  caller: the handle of the trigger that
\* fired, or 0 for scheduleJob(job, true); queued: the run id the manual run
\* route inserted and returned, Null otherwise.  In an invocation, ok and res
\* are the outcome of the query it awaits, proc is its child process, exit how
\* the process ended, output the callback's const output (line 39), lost says
\* that the UPDATE of lines 45-48 failed (and was logged, line 55).
RunJobStart(job, caller, queued, ok, table, seq) ==
  [inv |-> Append(inv, [job |-> job, caller |-> caller, queued |-> queued,
                        pc |-> "insert", ok |-> ok,
                        res |-> IF ok THEN seq ELSE Null,
                        runId |-> Null, proc |-> "none", exit |-> "none",
                        output |-> <<>>,
                        err |-> FALSE, message |-> <<>>, lost |-> FALSE]),
   runs |-> IF ok
            THEN MapSet(table, seq, [job_id |-> DbInt(job.id), status |-> "running",
                                     output |-> NullText, started_at |-> now,
                                     finished_at |-> Null])
            ELSE table,
   runSeq |-> IF ok THEN seq + 1 ELSE seq]

\* UPDATE job_runs SET status, output, finished_at WHERE id = runId
UpdateRun(table, runId, status, output, finished) ==
  IF runId \in DOMAIN table
  THEN [table EXCEPT ![runId] = [@ EXCEPT !.status = status, !.output = output,
                                          !.finished_at = finished]]
  ELSE table

\* A live trigger fires: node-cron calls runJob.
Fire(h, ok) ==
  /\ h \in DOMAIN triggers
  /\ Len(inv) < MaxInvocations
  /\ ok => runSeq <= MaxRuns
  /\ LET r == RunJobStart(triggers[h], h, Null, ok, runs, runSeq) IN
       /\ inv' = r.inv
       /\ runs' = r.runs
       /\ runSeq' = r.runSeq
  /\ UNCHANGED <<idColumn, VERBOSE, now, jobs, jobSeq, triggers, scheduledJobs,
                 reqs, boot, sweep, uncaught>>

\* runJob as it would be with the INSERT's failure swallowed before exec.
AfterInsertSpawnsAnyway(i) ==
  /\ i \in DOMAIN inv
  /\ inv[i].pc = "insert"
  /\ inv' = [inv EXCEPT ![i] =
       [@ EXCEPT !.pc = "exec", !.runId = inv[i].res, !.proc = "running"]]
  /\ UNCHANGED <<idColumn, VERBOSE, now, jobs, jobSeq, runs, runSeq, triggers,
                 scheduledJobs, reqs, boot, sweep, uncaught>>

\* Lines 32-38 when the INSERT succeeded: runId is set and the command is
\* spawned.  Lines 62-71 when it failed: runId is undefined, the error is logged.
AfterInsert(i) ==
  /\ i \in DOMAIN inv
  /\ inv[i].pc = "insert"
  /\ inv' = [inv EXCEPT ![i] =
       IF inv[i].ok
       THEN [@ EXCEPT !.pc = "exec", !.runId = inv[i].res, !.proc = "running"]
       ELSE [@ EXCEPT !.pc = "resolved"]]
  /\ UNCHANGED <<idColumn, VERBOSE, now, jobs, jobSeq, runs, runSeq, triggers,
                 scheduledJobs, reqs, boot, sweep, uncaught>>

\* The stored text: output.trim() || '(no output)'.
StoredOutput(output) == IF Trim(output) # <<>> THEN Trim(output) ELSE NoOutput

\* The callback as it would be if it took a non-empty stderr for the error.
ExecDoneErrByStderr(i, o, ok) ==
  /\ i \in DOMAIN inv
  /\ inv[i].pc = "exec"
  /\ LET output == o.stdout \o o.stderr
         failed == o.stderr # <<>>
         status == IF failed THEN "error" ELSE "success"
     IN /\ runs' = IF ok
                   THEN UpdateRun(runs, inv[i].runId, status, StoredOutput(output), now)
                   ELSE runs
        /\ inv' = [inv EXCEPT ![i] =
             [@ EXCEPT !.pc = "update", !.ok = ok, !.proc = "exited",
                       !.exit = o.kind, !.output = output,
                       !.lost = ~ok, !.err = failed,
                       !.message = IF failed
                                   THEN ErrMessage(inv[i].job.command, o.stderr)
                                   ELSE <<>>]]
  /\ UNCHANGED <<idColumn, VERBOSE, now, jobs, jobSeq, runSeq, triggers,
                 scheduledJobs, reqs, boot, sweep, uncaught>>

\* The callback as it would be if its UPDATE selected the row by job_id.
ExecDoneByJobId(i, o, ok) ==
  /\ i \in DOMAIN inv
  /\ inv[i].pc = "exec"
  /\ LET output == o.stdout \o o.stderr
         status == IF o.err THEN "error" ELSE "success"
         mine == {r \in DOMAIN runs : /\ runs[r].job_id = DbInt(inv[i].job.id)
                                      /\ runs[r].status = "running"}
     IN /\ runs' = IF ok
                   THEN [r \in DOMAIN runs |->
                           IF r \in mine
                           THEN [runs[r] EXCEPT !.status = status,
                                                !.output = StoredOutput(output),
                                                !.finished_at = now]
                           ELSE runs[r]]
                   ELSE runs
        /\ inv' = [inv EXCEPT ![i] =
             [@ EXCEPT !.pc = "update", !.ok = ok, !.proc = "exited",
                       !.exit = o.kind, !.output = output,
                       !.lost = ~ok, !.err = o.err,
                       !.message = IF o.err
                                   THEN ErrMessage(inv[i].job.command, o.stderr)
                                   ELSE <<>>]]
  /\ UNCHANGED <<idColumn, VERBOSE, now, jobs, jobSeq, runSeq, triggers,
                 scheduledJobs, reqs, boot, sweep, uncaught>>

\* The exec callback, lines 38-48: the process ended with outcome o and the
\* finalizing UPDATE is issued; ok: the store accepts it.
ExecDone(i, o, ok) ==
  /\ i \in DOMAIN inv
  /\ inv[i].pc = "exec"
  /\ LET output == o.stdout \o o.stderr
         status == IF o.err THEN "error" ELSE "success"
     IN /\ runs' = IF ok
                   THEN UpdateRun(runs, inv[i].runId, status, StoredOutput(output), now)
                   ELSE runs
        /\ inv' = [inv EXCEPT ![i] =
             [@ EXCEPT !.pc = "update", !.ok = ok, !.proc = "exited",
                       !.exit = o.kind, !.output = output,
                       !.lost = ~ok, !.err = o.err,
                       !.message = IF o.err
                                   THEN ErrMessage(inv[i].job.command, o.stderr)
                                   ELSE <<>>]]
  /\ UNCHANGED <<idColumn, VERBOSE, now, jobs, jobSeq, runSeq, triggers,
                 scheduledJobs, reqs, boot, sweep, uncaught>>

\* Lines 49-70: the UPDATE's outcome is logged; then resolve(), or reject(err),
\* which lands in the catch block: runId is set, so a second UPDATE is issued.
AfterUpdate(i, ok) ==
  /\ i \in DOMAIN inv
  /\ inv[i].pc = "update"
  /\ IF inv[i].err
     THEN /\ runs' = IF ok
                     THEN UpdateRun(runs, inv[i].runId, "error", inv[i].message, now)
                     ELSE runs
          /\ inv' = [inv EXCEPT ![i] = [@ EXCEPT !.pc = "update2", !.ok = ok]]
     ELSE /\ ok
          /\ runs' = runs
          /\ inv' = [inv EXCEPT ![i] = [@ EXCEPT !.pc = "resolved"]]
  /\ UNCHANGED <<idColumn, VERBOSE, now, jobs, jobSeq, runSeq, triggers,
                 scheduledJobs, reqs, boot, sweep, uncaught>>

\* Lines 65-71: the catch block's UPDATE is awaited outside any try.
AfterUpdate2(i) ==
  /\ i \in DOMAIN inv
  /\ inv[i].pc = "update2"
  /\ inv' = [inv EXCEPT ![i] =
       [@ EXCEPT !.pc = IF inv[i].ok THEN "resolved" ELSE "rejected"]]
  /\ uncaught' = IF inv[i].ok THEN uncaught ELSE uncaught \cup {"runJob"}
  /\ UNCHANGED <<idColumn, VERBOSE, now, jobs, jobSeq, runs, runSeq, triggers,
                 scheduledJobs, reqs, boot, sweep>>


\* --------------------------------------------------------------- requests
\* A handler's continuation that only sends the response (a query failed: 500;
\* no row: 404; not paused: 400) is taken together with the query it awaited.
NoJob == [id |-> JsNumber(0), command |-> "", schedule |-> "", status |-> "none"]

\* result.rows[0] of SELECT * FROM jobs WHERE id = $1
SelectJob(id) ==
  IF DbInt(id) \in DOMAIN jobs THEN JobObject(DbInt(id), jobs[DbInt(id)]) ELSE NoJob

\* UPDATE jobs SET status = $1 WHERE id = $2
UpdateJobStatus(table, id, status) ==
  IF DbInt(id) \in DOMAIN table
  THEN [table EXCEPT ![DbInt(id)] = [@ EXCEPT !.status = status]]
  ELSE table

PathIds == {JsString(n) : n \in 1..MaxJobs}

HasIdleSlot == \E s \in 1..MaxInFlight : reqs[s] = Idle

FreeSlot == CHOOSE s \in 1..MaxInFlight :
              reqs[s] = Idle /\ \A t \in 1..(s - 1) : reqs[t] # Idle

Request(kind, id, body, pc, job) ==
  [kind |-> kind, id |-> id, body |-> body, pc |-> pc, job |-> job,
   runId |-> Null, code |-> 0]

\* res.status(code).json(...): the handler is over, the response is on its way.
Responded(req, code) == [req EXCEPT !.pc = "responded", !.code = code, !.job = NoJob]

Respond(s, code) == reqs' = [reqs EXCEPT ![s] = Responded(@, code)]

\* POST / as it would be without its isForbidden check.
CreateValidationUngated(body) ==
  IF body.name = "" \/ body.command = "" \/ body.schedule = ""
  THEN "name, command, schedule required"
  ELSE IF Len(CommandText(body.command)) > MaxCommandLength
  THEN "command too long"
  ELSE IF ~cronValidate(body.schedule)
  THEN "invalid cron expression"
  ELSE ""

\* The checks of POST / before its INSERT, lines 37-47: the error, or "" if none.
CreateValidation(body) ==
  IF body.name = "" \/ body.command = "" \/ body.schedule = ""
  THEN "name, command, schedule required"
  ELSE IF Len(CommandText(body.command)) > MaxCommandLength
  THEN "command too long"
  ELSE IF isForbidden(CommandText(body.command))
  THEN "command contains forbidden operations"
  ELSE IF ~cronValidate(body.schedule)
  THEN "invalid cron expression"
  ELSE ""

\* The verdict on each body of Bodies.
BodyError == [body \in Bodies |-> CreateValidation(body)]

\* POST / with a body that fails a check: 400, nothing else happens.
CreateRejected(body) ==
  /\ BodyError[body] # ""
  /\ HasIdleSlot
  /\ reqs' = [reqs EXCEPT ![FreeSlot] =
       Responded(Request("create", JsString(0), body, "start", NoJob), 400)]
  /\ UNCHANGED <<idColumn, VERBOSE, now, jobs, jobSeq, runs, runSeq, triggers,
                 scheduledJobs, inv, boot, sweep, uncaught>>

\* POST / with a body that passes: the INSERT INTO jobs is issued (lines 49-52).
CreateStart(body, ok) ==
  /\ BodyError[body] = ""
  /\ HasIdleSlot
  /\ ok => jobSeq <= MaxJobs
  /\ LET row == [command |-> body.command, schedule |-> body.schedule,
                 status |-> "active"]
     IN /\ jobs' = IF ok THEN MapSet(jobs, jobSeq, row) ELSE jobs
        /\ jobSeq' = IF ok THEN jobSeq + 1 ELSE jobSeq
        /\ reqs' = [reqs EXCEPT ![FreeSlot] =
             IF ok
             THEN Request("create", JsString(jobSeq), body, "insert",
                          JobObject(jobSeq, row))
             ELSE Responded(Request("create", JsString(0), body, "start", NoJob), 500)]
  /\ UNCHANGED <<idColumn, VERBOSE, now, runs, runSeq, triggers, scheduledJobs,
                 inv, boot, sweep, uncaught>>

\* Lines 54-56: the inserted row is scheduled (the promise of scheduleJob is
\* dropped) and returned.
CreateDone(s) ==
  /\ reqs[s] # Idle /\ reqs[s].kind = "create" /\ reqs[s].pc = "insert"
  /\ TriggerRoom(1)
  /\ LET st == scheduleJob(reqs[s].job, Sched) IN
       /\ triggers' = st.triggers
       /\ scheduledJobs' = st.scheduledJobs
       /\ uncaught' = IF st.threw THEN uncaught \cup {"scheduleJob"} ELSE uncaught
  /\ Respond(s, 201)
  /\ UNCHANGED <<idColumn, VERBOSE, now, jobs, jobSeq, runs, runSeq, inv, boot,
                 sweep>>

\* The first query of the run, pause and resume routes, the SELECT by id, and
\* the answers 500, 404 and (resume of a job that is not paused) 400.
SelectStart(kind, id, ok) ==
  /\ kind \in {"run", "pause", "resume"}
  /\ HasIdleSlot
  /\ LET job == SelectJob(id)
         req == Request(kind, id, NoBody, "select", job)
     IN reqs' = [reqs EXCEPT ![FreeSlot] =
          IF ~ok THEN Responded(req, 500)
          ELSE IF job = NoJob THEN Responded(req, 404)
          ELSE IF kind = "resume" /\ job.status # "paused" THEN Responded(req, 400)
          ELSE req]
  /\ UNCHANGED <<idColumn, VERBOSE, now, jobs, jobSeq, runs, runSeq, triggers,
                 scheduledJobs, inv, boot, sweep, uncaught>>

Selected(s, kind) ==
  reqs[s] # Idle /\ reqs[s].kind = kind /\ reqs[s].pc = "select"

\* POST /:id/run, lines 77-81: the queued row is inserted.
RunSelected(s, ok) ==
  /\ Selected(s, "run")
  /\ ok => runSeq <= MaxRuns
  /\ runs' = IF ok
             THEN MapSet(runs, runSeq, [job_id |-> DbInt(reqs[s].id), status |-> "queued",
                                        output |-> NullText, started_at |-> Null,
                                        finished_at |-> Null])
             ELSE runs
  /\ runSeq' = IF ok THEN runSeq + 1 ELSE runSeq
  /\ reqs' = [reqs EXCEPT ![s] =
       IF ok THEN [@ EXCEPT !.pc = "insert", !.runId = runSeq] ELSE Responded(@, 500)]
  /\ UNCHANGED <<idColumn, VERBOSE, now, jobs, jobSeq, triggers, scheduledJobs,
                 inv, boot, sweep, uncaught>>

\* The run route as it would be if scheduleJob's runNow branch fell through to
\* the scheduling of lines 79-87.
RunInsertedFallsThrough(s, ok) ==
  /\ reqs[s] # Idle /\ reqs[s].kind = "run" /\ reqs[s].pc = "insert"
  /\ Len(inv) < MaxInvocations
  /\ ok => runSeq <= MaxRuns
  /\ TriggerRoom(1)
  /\ LET r == RunJobStart(Closure(reqs[s].job), 0, reqs[s].runId, ok, runs, runSeq)
         st == scheduleJob(reqs[s].job, Sched)
     IN /\ inv' = r.inv
        /\ runs' = r.runs
        /\ runSeq' = r.runSeq
        /\ triggers' = st.triggers
        /\ scheduledJobs' = st.scheduledJobs
  /\ Respond(s, 200)
  /\ UNCHANGED <<idColumn, VERBOSE, now, jobs, jobSeq, boot, sweep, uncaught>>

\* POST /:id/run, lines 83-88: scheduleJob(job, true) starts runJob (whose own
\* INSERT is issued at once; ok: it succeeds) and the queued run id is returned.
RunInserted(s, ok) ==
  /\ reqs[s] # Idle /\ reqs[s].kind = "run" /\ reqs[s].pc = "insert"
  /\ Len(inv) < MaxInvocations
  /\ ok => runSeq <= MaxRuns
  /\ LET r == RunJobStart(Closure(reqs[s].job), 0, reqs[s].runId, ok, runs, runSeq) IN
       /\ inv' = r.inv
       /\ runs' = r.runs
       /\ runSeq' = r.runSeq
  /\ Respond(s, 200)
  /\ UNCHANGED <<idColumn, VERBOSE, now, jobs, jobSeq, triggers, scheduledJobs,
                 boot, sweep, uncaught>>

\* POST /:id/pause, lines 103-104: the UPDATE to paused is issued.
PauseSelected(s, ok) ==
  /\ Selected(s, "pause")
  /\ jobs' = IF ok THEN UpdateJobStatus(jobs, reqs[s].id, "paused") ELSE jobs
  /\ reqs' = [reqs EXCEPT ![s] =
       IF ok THEN [@ EXCEPT !.pc = "update", !.job = NoJob] ELSE Responded(@, 500)]
  /\ UNCHANGED <<idColumn, VERBOSE, now, jobSeq, runs, runSeq, triggers,
                 scheduledJobs, inv, boot, sweep, uncaught>>

\* The pause route as it would be if cancelling also gave up the job's
\* invocations in flight, their processes killed and their rows left as they are.
PauseUpdatedAbandonsRuns(s) ==
  /\ reqs[s] # Idle /\ reqs[s].kind = "pause" /\ reqs[s].pc = "update"
  /\ LET st == cancelJob(reqs[s].id, Sched) IN
       /\ triggers' = st.triggers
       /\ scheduledJobs' = st.scheduledJobs
  /\ inv' = [i \in DOMAIN inv |->
              IF inv[i].pc = "exec" /\ DbInt(inv[i].job.id) = DbInt(reqs[s].id)
              THEN [inv[i] EXCEPT !.pc = "resolved", !.proc = "killed"]
              ELSE inv[i]]
  /\ Respond(s, 200)
  /\ UNCHANGED <<idColumn, VERBOSE, now, jobs, jobSeq, runs, runSeq, boot,
                 sweep, uncaught>>

\* POST /:id/pause, lines 106-109: cancelJob(id) with the id of the path.
PauseUpdated(s) ==
  /\ reqs[s] # Idle /\ reqs[s].kind = "pause" /\ reqs[s].pc = "update"
  /\ LET st == cancelJob(reqs[s].id, Sched) IN
       /\ triggers' = st.triggers
       /\ scheduledJobs' = st.scheduledJobs
  /\ Respond(s, 200)
  /\ UNCHANGED <<idColumn, VERBOSE, now, jobs, jobSeq, runs, runSeq, inv, boot,
                 sweep, uncaught>>

\* POST /:id/resume, lines 127-128: the UPDATE to active is issued.
ResumeSelected(s, ok) ==
  /\ Selected(s, "resume")
  /\ jobs' = IF ok THEN UpdateJobStatus(jobs, reqs[s].id, "active") ELSE jobs
  /\ reqs' = [reqs EXCEPT ![s] =
       IF ok THEN [@ EXCEPT !.pc = "update"] ELSE Responded(@, 500)]
  /\ UNCHANGED <<idColumn, VERBOSE, now, jobSeq, runs, runSeq, triggers,
                 scheduledJobs, inv, boot, sweep, uncaught>>

\* POST /:id/resume, lines 130-133: scheduleJob(job) with the row read earlier.
ResumeUpdated(s) ==
  /\ reqs[s] # Idle /\ reqs[s].kind = "resume" /\ reqs[s].pc = "update"
  /\ TriggerRoom(1)
  /\ LET st == scheduleJob(reqs[s].job, Sched) IN
       /\ triggers' = st.triggers
       /\ scheduledJobs' = st.scheduledJobs
       /\ uncaught' = IF st.threw THEN uncaught \cup {"scheduleJob"} ELSE uncaught
  /\ Respond(s, 200)
  /\ UNCHANGED <<idColumn, VERBOSE, now, jobs, jobSeq, runs, runSeq, inv, boot,
                 sweep>>

\* DELETE /:id, lines 164-165: the DELETE FROM jobs is issued.  The handler has
\* no try: if the query fails its promise rejects and no response is sent
\* (code 0).
DeleteStart(id, ok) ==
  /\ HasIdleSlot
  /\ jobs' = IF ok THEN MapDelete(jobs, DbInt(id)) ELSE jobs
  /\ reqs' = [reqs EXCEPT ![FreeSlot] =
       IF ok THEN Request("delete", id, NoBody, "delete", NoJob)
       ELSE Responded(Request("delete", id, NoBody, "delete", NoJob), 0)]
  /\ UNCHANGED <<idColumn, VERBOSE, now, jobSeq, runs, runSeq, triggers,
                 scheduledJobs, inv, boot, sweep, uncaught>>

\* DELETE /:id, lines 166-167: cancelJob(id) with the id of the path.
DeleteDone(s) ==
  /\ reqs[s] # Idle /\ reqs[s].kind = "delete" /\ reqs[s].pc = "delete"
  /\ LET st == cancelJob(reqs[s].id, Sched) IN
       /\ triggers' = st.triggers
       /\ scheduledJobs' = st.scheduledJobs
  /\ Respond(s, 200)
  /\ UNCHANGED <<idColumn, VERBOSE, now, jobs, jobSeq, runs, runSeq, inv, boot,
                 sweep, uncaught>>

\* The response has left (or the connection was given up): the request is over.
Finish(s) ==
  /\ reqs[s] # Idle /\ reqs[s].pc = "responded"
  /\ reqs' = [reqs EXCEPT ![s] = Idle]
  /\ UNCHANGED <<idColumn, VERBOSE, now, jobs, jobSeq, runs, runSeq, triggers,
                 scheduledJobs, inv, boot, sweep, uncaught>>

\* ------------------------------------------------------------ initScheduler
RECURSIVE RowsFrom(_, _)
\* result.rows of SELECT * FROM jobs, by ascending id from n.
RowsFrom(n, table) ==
  IF n >= jobSeq THEN <<>>
  ELSE IF n \in DOMAIN table
  THEN <<JobObject(n, table[n])>> \o RowsFrom(n + 1, table)
  ELSE RowsFrom(n + 1, table)

RECURSIVE LoadJobsNoSkip(_, _)
\* The loop as it would be without its test of job.status.
LoadJobsNoSkip(rows, acc) ==
  IF rows = <<>> \/ acc.st.threw THEN acc
  ELSE LET st == scheduleJob(Head(rows), acc.st) IN
       LoadJobsNoSkip(Tail(rows), [acc EXCEPT !.st = st,
                                              !.loaded = IF st.threw THEN @ ELSE @ + 1])

RECURSIVE LoadJobs(_, _)
\* The loop of lines 106-115 over rows, from the counters and scheduler state in
\* acc; it ends early if the awaited scheduleJob rejects.
LoadJobs(rows, acc) ==
  IF rows = <<>> \/ acc.st.threw THEN acc
  ELSE IF Head(rows).status = "paused"
  THEN LoadJobs(Tail(rows), [acc EXCEPT !.skipped = @ + 1])
  ELSE LET st == scheduleJob(Head(rows), acc.st) IN
       LoadJobs(Tail(rows), [acc EXCEPT !.st = st,
                                        !.loaded = IF st.threw THEN @ ELSE @ + 1])

\* Line 102: SELECT * FROM jobs is issued; if it fails initScheduler rejects.
BootStart(ok) ==
  /\ boot.pc = "idle"
  /\ boot' = [boot EXCEPT !.pc = IF ok THEN "select" ELSE "failed",
                          !.rows = IF ok THEN RowsFrom(1, jobs) ELSE <<>>]
  /\ uncaught' = IF ok THEN uncaught ELSE uncaught \cup {"initScheduler"}
  /\ UNCHANGED <<idColumn, VERBOSE, now, jobs, jobSeq, runs, runSeq, triggers,
                 scheduledJobs, inv, reqs, sweep>>

\* Lines 103-119: every row that is not paused is scheduled.  `await
\* scheduleJob(job)` yields to no I/O callback, so the loop is one step.
BootLoad ==
  /\ boot.pc = "select"
  /\ TriggerRoom(Len(boot.rows))
  /\ LET r == LoadJobs(boot.rows, [st |-> Sched, loaded |-> 0, skipped |-> 0]) IN
       /\ triggers' = r.st.triggers
       /\ scheduledJobs' = r.st.scheduledJobs
       /\ boot' = [pc |-> IF r.st.threw THEN "failed" ELSE "done", rows |-> <<>>,
                   loaded |-> r.loaded, skipped |-> r.skipped]
       /\ uncaught' = IF r.st.threw THEN uncaught \cup {"initScheduler"} ELSE uncaught
  /\ UNCHANGED <<idColumn, VERBOSE, now, jobs, jobSeq, runs, runSeq, inv, reqs,
                 sweep>>

\* ----------------------------------------------------------- cleanupOldRuns
\* The DELETE's test as it would be with <= for <.
ExpiredInclusive(row) ==
  row.finished_at # Null /\ row.finished_at <= now - RetentionDays

\* DELETE FROM job_runs WHERE finished_at < NOW() - INTERVAL '30 days'
Expired(row) == row.finished_at # Null /\ row.finished_at < now - RetentionDays

DeleteOldRuns(table) == [r \in {q \in DOMAIN table : ~Expired(table[q])} |-> table[r]]

\* The daily trigger fires, lines 126-131: the first query is issued, the
\* COUNT when VERBOSE, the DELETE otherwise.
SweepStart(ok) ==
  /\ sweep.pc = "idle"
  /\ IF VERBOSE
     THEN /\ sweep' = [pc |-> IF ok THEN "before" ELSE "failed", res |-> 0]
          /\ runs' = runs
     ELSE /\ sweep' = [pc |-> IF ok THEN "delete" ELSE "failed",
                       res |-> IF ok THEN Cardinality(DOMAIN runs)
                                            - Cardinality(DOMAIN DeleteOldRuns(runs))
                               ELSE 0]
          /\ runs' = IF ok THEN DeleteOldRuns(runs) ELSE runs
  /\ UNCHANGED <<idColumn, VERBOSE, now, jobs, jobSeq, runSeq, triggers,
                 scheduledJobs, inv, reqs, boot, uncaught>>

\* Lines 129-131 when VERBOSE: after the first COUNT the DELETE is issued.
SweepDelete(ok) ==
  /\ sweep.pc = "before"
  /\ sweep' = [pc |-> IF ok THEN "delete" ELSE "failed",
               res |-> IF ok THEN Cardinality(DOMAIN runs)
                                    - Cardinality(DOMAIN DeleteOldRuns(runs))
                       ELSE 0]
  /\ runs' = IF ok THEN DeleteOldRuns(runs) ELSE runs
  /\ UNCHANGED <<idColumn, VERBOSE, now, jobs, jobSeq, runSeq, triggers,
                 scheduledJobs, inv, reqs, boot, uncaught>>

\* Line 132 when VERBOSE: after the DELETE the second COUNT is issued.
SweepCount(ok) ==
  /\ sweep.pc = "delete"
  /\ VERBOSE
  /\ sweep' = [sweep EXCEPT !.pc = IF ok THEN "after" ELSE "failed"]
  /\ UNCHANGED <<idColumn, VERBOSE, now, jobs, jobSeq, runs, runSeq, triggers,
                 scheduledJobs, inv, reqs, boot, uncaught>>

\* cleanupOldRuns as it would be without its try / catch.
SweepDoneUncaught ==
  /\ \/ sweep.pc \in {"after", "failed"}
     \/ sweep.pc = "delete" /\ ~VERBOSE
  /\ sweep' = [pc |-> "idle", res |-> 0]
  /\ uncaught' = IF sweep.pc = "failed" THEN uncaught \cup {"cleanupOldRuns"}
                 ELSE uncaught
  /\ UNCHANGED <<idColumn, VERBOSE, now, jobs, jobSeq, runs, runSeq, triggers,
                 scheduledJobs, inv, reqs, boot>>

\* Lines 134-145: the result is logged, or the error caught and logged.
SweepDone ==
  /\ \/ sweep.pc \in {"after", "failed"}
     \/ sweep.pc = "delete" /\ ~VERBOSE
  /\ sweep' = [pc |-> "idle", res |-> 0]
  /\ UNCHANGED <<idColumn, VERBOSE, now, jobs, jobSeq, runs, runSeq, triggers,
                 scheduledJobs, inv, reqs, boot, uncaught>>

\* -------------------------------------------------------------------- time
Tick ==
  /\ now + TickDays <= MaxNow
  /\ now' = now + TickDays
  /\ UNCHANGED <<idColumn, VERBOSE, jobs, jobSeq, runs, runSeq, triggers,
                 scheduledJobs, inv, reqs, boot, sweep, uncaught>>

\* ------------------------------------------------------------ specification
Slots == 1..MaxInFlight

Invs == 1..MaxInvocations

\* initScheduler, run once at startup.
Boot ==
  \/ \E ok \in BOOLEAN : BootStart(ok)
  \/ BootLoad

\* The routes that keep jobs and the task registry: create, pause, resume, delete.
Handlers ==
  \/ \E b \in Bodies : CreateRejected(b)
  \/ \E b \in Bodies, ok \in BOOLEAN : CreateStart(b, ok)
  \/ \E s \in Slots : CreateDone(s)
  \/ \E k \in {"pause", "resume"}, id \in PathIds, ok \in BOOLEAN :
       SelectStart(k, id, ok)
  \/ \E s \in Slots, ok \in BOOLEAN : PauseSelected(s, ok)
  \/ \E s \in Slots : PauseUpdated(s)
  \/ \E s \in Slots, ok \in BOOLEAN : ResumeSelected(s, ok)
  \/ \E s \in Slots : ResumeUpdated(s)
  \/ \E id \in PathIds, ok \in BOOLEAN : DeleteStart(id, ok)
  \/ \E s \in Slots : DeleteDone(s)
  \/ \E s \in Slots : Finish(s)

\* Requests may arrive while initScheduler is still loading.
NextRoutes == Boot \/ Handlers

\* The same routes, served only once initScheduler has completed.
StartedHandlers ==
  \/ boot.pc = "done" /\ \E b \in Bodies : CreateRejected(b)
  \/ boot.pc = "done" /\ \E b \in Bodies, ok \in BOOLEAN : CreateStart(b, ok)
  \/ boot.pc = "done" /\ \E s \in Slots : CreateDone(s)
  \/ boot.pc = "done" /\ \E k \in {"pause", "resume"}, id \in PathIds,
                            ok \in BOOLEAN : SelectStart(k, id, ok)
  \/ boot.pc = "done" /\ \E s \in Slots, ok \in BOOLEAN : PauseSelected(s, ok)
  \/ boot.pc = "done" /\ \E s \in Slots : PauseUpdated(s)
  \/ boot.pc = "done" /\ \E s \in Slots, ok \in BOOLEAN : ResumeSelected(s, ok)
  \/ boot.pc = "done" /\ \E s \in Slots : ResumeUpdated(s)
  \/ boot.pc = "done" /\ \E id \in PathIds, ok \in BOOLEAN : DeleteStart(id, ok)
  \/ boot.pc = "done" /\ \E s \in Slots : DeleteDone(s)
  \/ boot.pc = "done" /\ \E s \in Slots : Finish(s)

NextStarted == Boot \/ StartedHandlers

\* The execution engine, behind the triggers and the manual run route.
NextEngine ==
  \/ Boot
  \/ \E h \in 1..MaxTriggers, ok \in BOOLEAN : Fire(h, ok)
  \/ \E i \in Invs : AfterInsert(i)
  \/ \E i \in Invs, o \in Outcomes, ok \in BOOLEAN : ExecDone(i, o, ok)
  \/ \E i \in Invs, ok \in BOOLEAN : AfterUpdate(i, ok)
  \/ \E i \in Invs : AfterUpdate2(i)
  \/ \E id \in PathIds, ok \in BOOLEAN : SelectStart("run", id, ok)
  \/ \E s \in Slots, ok \in BOOLEAN : RunSelected(s, ok)
  \/ \E s \in Slots, ok \in BOOLEAN : RunInserted(s, ok)
  \/ \E s \in Slots : Finish(s)

\* The retention sweeper and the clock.
NextSweep ==
  \/ \E ok \in BOOLEAN : SweepStart(ok)
  \/ \E ok \in BOOLEAN : SweepDelete(ok)
  \/ \E ok \in BOOLEAN : SweepCount(ok)
  \/ SweepDone
  \/ Tick

Next == NextRoutes \/ NextEngine \/ NextSweep

\* The whole program.
Spec == Init /\ [][Next]_vars

\* The registry side of the program: the routes and initScheduler.
SpecRoutes == Init /\ [][NextRoutes]_vars

\* The registry side, for a server that starts listening after initScheduler:
\* its behaviours are behaviours of SpecRoutes.
SpecStarted == Init /\ [][NextStarted]_vars

\* The execution side of the program: triggers firing and manual runs.
SpecEngine == Init /\ [][NextEngine]_vars

\* The retention sweeper at work while the triggers fire and the clock advances.
NextRetention ==
  \/ Boot
  \/ \E h \in 1..MaxTriggers, ok \in BOOLEAN : Fire(h, ok)
  \/ \E i \in Invs : AfterInsert(i)
  \/ \E i \in Invs, o \in Outcomes, ok \in BOOLEAN : ExecDone(i, o, ok)
  \/ \E i \in Invs, ok \in BOOLEAN : AfterUpdate(i, ok)
  \/ \E i \in Invs : AfterUpdate2(i)
  \/ NextSweep

SpecRetention == Init /\ [][NextRetention]_vars

\* The engine behind the triggers while jobs are paused.
NextCancel ==
  \/ Boot
  \/ \E h \in 1..MaxTriggers, ok \in BOOLEAN : Fire(h, ok)
  \/ \E i \in Invs : AfterInsert(i)
  \/ \E i \in Invs, o \in Outcomes, ok \in BOOLEAN : ExecDone(i, o, ok)
  \/ \E i \in Invs, ok \in BOOLEAN : AfterUpdate(i, ok)
  \/ \E i \in Invs : AfterUpdate2(i)
  \/ \E id \in PathIds, ok \in BOOLEAN : SelectStart("pause", id, ok)
  \/ \E s \in Slots, ok \in BOOLEAN : PauseSelected(s, ok)
  \/ \E s \in Slots : PauseUpdated(s)
  \/ \E s \in Slots : Finish(s)

\* The event loop runs a continuation whose query has settled, and a spawned
\* process ends, by itself or by exec's 60 s timeout.
EngineFairness ==
  \A i \in Invs :
    /\ WF_vars(AfterInsert(i))
    /\ WF_vars(\E o \in Outcomes, ok \in BOOLEAN : ExecDone(i, o, ok))

SpecCancel == Init /\ [][NextCancel]_vars /\ EngineFairness

\* Start-up alone, over up to MaxBootRows persisted jobs.
InitBoot ==
  /\ idColumn \in {"int4", "int8"}
  /\ VERBOSE \in BOOLEAN
  /\ now = 0
  /\ \E n \in 0..MaxBootRows : jobs \in [1..n -> PersistedRows] /\ jobSeq = n + 1
  /\ runs = EmptyMap
  /\ runSeq = 1
  /\ triggers = EmptyMap
  /\ scheduledJobs = EmptyMap
  /\ inv = <<>>
  /\ reqs = [s \in 1..MaxInFlight |-> Idle]
  /\ boot = [pc |-> "idle", rows |-> <<>>, loaded |-> 0, skipped |-> 0]
  /\ sweep = [pc |-> "idle", res |-> 0]
  /\ uncaught = {}

SpecBoot == InitBoot /\ [][Boot]_vars


\* ------------------------------------------------------------------ claims
\* Live triggers whose callback runs job n.
TriggersOf(n) == {h \in DOMAIN triggers : DbInt(triggers[h].id) = n}

\* Handles the registry holds.
Registered == {scheduledJobs[k] : k \in DOMAIN scheduledJobs}

\* No handler is between its first query and its response.
NoRequestInProgress == \A s \in Slots : reqs[s] = Idle \/ reqs[s].pc = "responded"

\* C1: every trigger created and not yet stopped is in the registry, and no job
\* id has more than one of them (no orphaned timers).
C1_NoOrphanedTrigger ==
  /\ \A h \in DOMAIN triggers : h \in Registered
  /\ \A n \in 1..MaxJobs : Cardinality(TriggersOf(n)) <= 1

\* C2: when a pause or delete request completes (its cancelJob(id) has
\* returned), the job of the path has no registry entry and no live trigger.
C2_PauseAndDeleteStopTheTrigger ==
  [][\A s \in Slots :
       ( /\ reqs[s] # Idle
         /\ reqs[s].kind \in {"pause", "delete"}
         /\ reqs[s].pc \in {"update", "delete"}
         /\ reqs'[s] # reqs[s] )
       => /\ \A k \in DOMAIN scheduledJobs' : DbInt(k) # DbInt(reqs[s].id)
          /\ \A h \in DOMAIN triggers' : DbInt(triggers'[h].id) # DbInt(reqs[s].id)]_vars

\* C3: once initScheduler has completed and no request is in progress, a job has
\* a registry entry iff its status is active and its schedule is valid.
C3_RegistryIffActiveAndValid ==
  (boot.pc = "done" /\ NoRequestInProgress)
  => \A n \in DOMAIN jobs :
       JobObject(n, jobs[n]).id \in DOMAIN scheduledJobs
       <=> (jobs[n].status = "active" /\ cronValidate(jobs[n].schedule))


\* Bodies whose command is forbidden or too long, or whose schedule is not valid.
BadBodies ==
  {b \in Bodies : \/ Len(CommandText(b.command)) > MaxCommandLength
                  \/ isForbidden(CommandText(b.command))
                  \/ ~cronValidate(b.schedule)}

\* Commands that pass the gate of POST /.
AllowedCommands ==
  {c \in Commands : /\ Len(CommandText(c)) <= MaxCommandLength
                    /\ ~isForbidden(CommandText(c))}

\* Every command the engine can be handed, from a row of jobs or from the
\* closure of a trigger, passes the gate.
OnlyAllowedCommands ==
  /\ \A n \in DOMAIN jobs : jobs[n].command \in AllowedCommands
  /\ \A h \in DOMAIN triggers : triggers[h].command \in AllowedCommands

\* A create request with a bad body arrives: it is answered 400 at once and
\* neither table, nor the registry, nor any trigger or invocation changes.
BadCreateIsRejected ==
  \A s \in Slots :
    ( /\ reqs[s] = Idle
      /\ reqs'[s] # Idle
      /\ reqs'[s].kind = "create"
      /\ reqs'[s].body \in BadBodies )
    => /\ reqs'[s].pc = "responded"
       /\ reqs'[s].code = 400
       /\ UNCHANGED <<jobs, jobSeq, runs, runSeq, triggers, scheduledJobs, inv>>

\* C9: a create request whose command is forbidden or longer than 2000
\* characters, or whose schedule is not valid, is rejected with no state
\* mutation, so no command failing validation reaches the engine.
C9_InvalidCreateIsRejectedUnchanged ==
  [][BadCreateIsRejected]_vars /\ []OnlyAllowedCommands

C9_Witness ==
  \E s \in Slots :
    /\ reqs[s] # Idle
    /\ reqs[s].kind = "create"
    /\ reqs[s].code = 400
    /\ reqs[s].body.command = "Sudo rm -rf /"
    /\ jobs # EmptyMap

\* The route resume calls scheduleJob(job) for a job whose schedule is not
\* valid: no trigger, the registry as it was, no rejected promise, answer 200.
ResumeOfInvalidSchedule ==
  \A s \in Slots :
    ( /\ reqs[s] # Idle
      /\ reqs[s].kind = "resume"
      /\ reqs[s].pc = "update"
      /\ ~cronValidate(reqs[s].job.schedule)
      /\ reqs'[s] # reqs[s] )
    => /\ UNCHANGED <<triggers, scheduledJobs, uncaught>>
       /\ reqs'[s].code = 200

\* initScheduler calls scheduleJob(job) for the rows it read: the loop goes
\* through, and a row whose schedule is not valid leaves its registry key as it
\* was and gets no trigger.
LoadOfInvalidSchedule ==
  boot.pc = "select" /\ boot'.pc # "select"
  => /\ boot'.pc = "done"
     /\ \A k \in 1..Len(boot.rows) :
          ~cronValidate(boot.rows[k].schedule)
          => LET id == boot.rows[k].id IN
             /\ id \in DOMAIN scheduledJobs' <=> id \in DOMAIN scheduledJobs
             /\ id \in DOMAIN scheduledJobs => scheduledJobs'[id] = scheduledJobs[id]
             /\ \A h \in DOMAIN triggers' \ DOMAIN triggers : triggers'[h].id # id

\* C10: scheduleJob(job) with runNow = false, for a job whose schedule is not a
\* valid cron expression, creates no trigger, leaves the registry as it was and
\* does not throw.
C10_InvalidCronSchedulesNothing ==
  /\ [][ResumeOfInvalidSchedule /\ LoadOfInvalidSchedule]_vars
  /\ [](\A h \in DOMAIN triggers : cronValidate(triggers[h].schedule))
  /\ []("scheduleJob" \notin uncaught)

C10_Witness ==
  \E s \in Slots :
    /\ reqs[s] # Idle
    /\ reqs[s].kind = "resume"
    /\ reqs[s].pc = "responded"
    /\ reqs[s].code = 200
    /\ DbInt(reqs[s].id) \in DOMAIN jobs
    /\ ~cronValidate(jobs[DbInt(reqs[s].id)].schedule)
    /\ TriggersOf(DbInt(reqs[s].id)) = {}


Terminal == {"success", "error"}

\* The order queued -> running -> {success, error}.
Rank(status) ==
  CASE status = "queued" -> 0
    [] status = "running" -> 1
    [] OTHER -> 2

\* C4: the status of a JobRun row only moves forward along queued -> running
\* -> {success, error}, and a row whose status is success or error is never
\* written again.
C4_TerminalRunIsNeverRewritten ==
  [][\A r \in DOMAIN runs \cap DOMAIN runs' :
       /\ Rank(runs'[r].status) >= Rank(runs[r].status)
       /\ runs[r].status \in Terminal => runs'[r] = runs[r]]_vars

\* The rows created for the execution of invocation i: the engine's own, and
\* the one the manual run route inserted before calling the engine.
RowsOf(i) == {inv[i].runId, inv[i].queued} \ {Null}

\* Invocation i is over and its process ran to its end.
Completed(i) == inv[i].proc = "exited" /\ inv[i].pc \in {"resolved", "rejected"}

\* C5: a completed execution has exactly one JobRun row, and that row is in a
\* terminal status.  Stated for the executions whose own row the store let the
\* engine finalize, which the claim covers.
C5_OneRunRowPerExecution ==
  \A i \in DOMAIN inv :
    ( /\ Completed(i)
      /\ inv[i].runId \in DOMAIN runs
      /\ runs[inv[i].runId].status \in Terminal )
    => /\ Cardinality(RowsOf(i)) = 1
       /\ \A r \in RowsOf(i) : r \in DOMAIN runs /\ runs[r].status \in Terminal

\* C6: the promise returned by runJob never rejects.
C6_RunJobNeverRejects ==
  \A i \in DOMAIN inv : inv[i].pc # "rejected"

\* C7: a row whose finalizing UPDATE (after the process completed) failed
\* keeps status running for good.
C7_LostFinalizationStaysRunning ==
  \A i \in DOMAIN inv :
    inv[i].lost => /\ inv[i].runId \in DOMAIN runs
                   /\ runs[inv[i].runId].status = "running"

\* An invocation whose INSERT failed has no run id and no process, and is
\* waiting for the failure or has resolved.
FailedInsertIsAbandoned ==
  \A i \in DOMAIN inv :
    inv[i].res = Null => /\ inv[i].runId = Null
                         /\ inv[i].proc = "none"
                         /\ inv[i].pc \in {"insert", "resolved"}

\* A step that starts or continues an invocation whose INSERT failed writes
\* nothing to job_runs.
FailedInsertWritesNothing ==
  \A i \in DOMAIN inv' :
    (inv'[i].res = Null /\ (i \notin DOMAIN inv \/ inv'[i] # inv[i]))
    => UNCHANGED <<runs, runSeq>>

\* C8: if the INSERT that creates the JobRun fails, the command is never
\* spawned, no row exists for the invocation, no row is written, and runJob
\* resolves.
C8_FailedInsertAbandonsInvocation ==
  []FailedInsertIsAbandoned /\ [][FailedInsertWritesNothing]_vars

C8_Witness ==
  \E i \in DOMAIN inv :
    /\ inv[i].res = Null
    /\ inv[i].pc = "resolved"
    /\ inv[i].caller # 0
    /\ \A r \in DOMAIN runs : runs[r].job_id # DbInt(inv[i].job.id)


\* ---- initScheduler
PausedJobs == {n \in DOMAIN jobs : jobs[n].status = "paused"}

OtherJobs == DOMAIN jobs \ PausedJobs

\* Keys under which the registry holds the jobs of ns.
KeysOf(ns) == {JobObject(n, jobs[n]).id : n \in ns}

BootCounts ==
  /\ boot.skipped = Cardinality(PausedJobs)
  /\ boot.loaded = Cardinality(OtherJobs)

\* C11 as claimed: after initScheduler completes on an empty registry, skipped
\* is the number of paused jobs, loaded the number of the others, and the
\* registry holds exactly one entry per job counted as loaded and none for a
\* paused job.
C11_RegistrySizeEqualsLoaded ==
  boot.pc = "done" =>
    /\ BootCounts
    /\ Cardinality(DOMAIN scheduledJobs) = boot.loaded
    /\ DOMAIN scheduledJobs = KeysOf(OtherJobs)

\* C11 as amended: after initScheduler completes on an empty registry, skipped
\* is the number of paused jobs, loaded the number of the others, and the
\* registry holds exactly one entry, with its own live trigger, per job that is
\* not paused and whose schedule is a valid cron expression, and no other entry.
C11_InitSchedulerLoadsValidJobs ==
  boot.pc = "done" =>
    /\ BootCounts
    /\ DOMAIN scheduledJobs =
         KeysOf({n \in OtherJobs : cronValidate(jobs[n].schedule)})
    /\ Cardinality(DOMAIN scheduledJobs) =
         Cardinality({n \in OtherJobs : cronValidate(jobs[n].schedule)})
    /\ \A k \in DOMAIN scheduledJobs :
         /\ scheduledJobs[k] \in DOMAIN triggers
         /\ triggers[scheduledJobs[k]].id = k
    /\ Cardinality(DOMAIN triggers) = Cardinality(DOMAIN scheduledJobs)

C11_Witness ==
  /\ boot.pc = "done"
  /\ boot.skipped = 1
  /\ boot.loaded = 2
  /\ Cardinality(DOMAIN scheduledJobs) = 1


\* ---- cleanupOldRuns
\* The step in which the sweep's DELETE is executed by the store.
SweepDeletes == sweep.pc \in {"idle", "before"} /\ sweep'.pc = "delete"

\* A step of the sweep.
SweepSteps == sweep' # sweep

\* C12: the sweep's DELETE removes every JobRun whose finished_at is more than
\* 30 days before the sweep time and leaves every JobRun whose finished_at is
\* within the last 30 days present and unmodified; no other step of the sweep
\* writes to job_runs.
C12_SweepDeletesExactlyTheOldRuns ==
  [][/\ SweepDeletes =>
          \A r \in DOMAIN runs :
            /\ (runs[r].finished_at # Null
                /\ now - runs[r].finished_at > RetentionDays)
               => r \notin DOMAIN runs'
            /\ (runs[r].finished_at # Null
                /\ now - runs[r].finished_at <= RetentionDays)
               => r \in DOMAIN runs' /\ runs'[r] = runs[r]
     /\ (SweepSteps /\ ~SweepDeletes) => runs' = runs]_vars

\* A sweep has just deleted one run and kept a run that is exactly 30 days old.
C12_Witness ==
  /\ sweep.pc = "delete"
  /\ sweep.res = 1
  /\ \E r \in DOMAIN runs :
       runs[r].finished_at # Null /\ now - runs[r].finished_at = RetentionDays


\* ---- cancelJob
\* Every value an id can take as a key: the number and the numeral string.
Keys == {JsNumber(n) : n \in 1..MaxJobs} \cup {JsString(n) : n \in 1..MaxJobs}

\* cancelJob(id) called twice in a row on the scheduler's present state.
CancelTwice(id) ==
  LET first == cancelJob(id, Sched)
      second == cancelJob(id, first)
  IN /\ ~first.threw /\ ~second.threw
     /\ id \notin DOMAIN first.scheduledJobs
     /\ second = first
     /\ IF id \in DOMAIN scheduledJobs
        THEN /\ DOMAIN first.scheduledJobs = DOMAIN scheduledJobs \ {id}
             /\ \A k \in DOMAIN first.scheduledJobs :
                  first.scheduledJobs[k] = scheduledJobs[k]
             /\ DOMAIN first.triggers = DOMAIN triggers \ {scheduledJobs[id]}
             /\ \A h \in DOMAIN first.triggers : first.triggers[h] = triggers[h]
        ELSE /\ first.scheduledJobs = scheduledJobs
             /\ first.triggers = triggers

CancelTwiceIsSafe == \A id \in Keys : CancelTwice(id)

\* The request in slot s is at its cancelJob(id) call and this step makes it.
CancelCall(s) ==
  /\ reqs[s] # Idle
  /\ \/ reqs[s].kind = "pause" /\ reqs[s].pc = "update"
     \/ reqs[s].kind = "delete" /\ reqs[s].pc = "delete"
  /\ reqs'[s] # reqs[s]

\* A cancelJob call of the routes on an id without entry changes nothing; on an
\* id with an entry it leaves no entry for that id.
CancelCallsAgree ==
  \A s \in Slots :
    CancelCall(s) =>
      /\ reqs[s].id \notin DOMAIN scheduledJobs'
      /\ reqs[s].id \notin DOMAIN scheduledJobs
           => UNCHANGED <<scheduledJobs, triggers>>
      /\ UNCHANGED uncaught

\* C13: cancelJob(id) twice in a row is safe: the first call removes the entry
\* and stops its trigger, and the second finds no entry, changes nothing, stops
\* no trigger and does not throw; cancelJob on an id without entry is a no-op.
C13_CancelJobIsIdempotent ==
  []CancelTwiceIsSafe /\ [][CancelCallsAgree]_vars

\* A delete has made its cancelJob call, the id has no entry, another job has.
C13_Witness ==
  /\ idColumn = "int8"
  /\ scheduledJobs # EmptyMap
  /\ \E s \in Slots :
       /\ reqs[s] # Idle
       /\ reqs[s].kind = "delete"
       /\ reqs[s].pc = "responded"
       /\ reqs[s].code = 200
       /\ reqs[s].id \notin DOMAIN scheduledJobs


\* ---- scheduleJob(job, true)
\* The run request in slot s makes its scheduleJob(job, true) call in this step.
RunNowCall(s) ==
  /\ reqs[s] # Idle
  /\ reqs[s].kind = "run"
  /\ reqs[s].pc = "insert"
  /\ reqs'[s] # reqs[s]

\* This step continues an invocation started by scheduleJob(job, true).
RunNowContinues == \E i \in DOMAIN inv : inv[i].caller = 0 /\ inv'[i] # inv[i]

\* The call starts exactly one invocation, of the job of the request, and
\* neither the call nor the invocation touches the registry or the triggers.
RunNowLeavesRegistry ==
  /\ \A s \in Slots :
       RunNowCall(s) =>
         /\ Len(inv') = Len(inv) + 1
         /\ inv'[Len(inv')].caller = 0
         /\ inv'[Len(inv')].job.id = reqs[s].job.id
         /\ \A i \in DOMAIN inv : inv'[i] = inv[i]
         /\ UNCHANGED <<scheduledJobs, triggers>>
  /\ RunNowContinues => UNCHANGED <<scheduledJobs, triggers>>

\* C14: scheduleJob(job, true) runs the engine once for that job and leaves
\* the Task Registry unchanged: no entry is added, replaced, stopped or removed,
\* whatever the job's status, with or without an entry, schedule valid or not.
C14_RunNowLeavesRegistryUnchanged == [][RunNowLeavesRegistry]_vars

\* A manual run has completed for a job that has an entry, and the entry is
\* the only one, with its trigger.
C14_Witness ==
  \E i \in DOMAIN inv :
    /\ inv[i].caller = 0
    /\ inv[i].pc = "resolved"
    /\ inv[i].proc = "exited"
    /\ DOMAIN scheduledJobs = {inv[i].job.id}
    /\ Cardinality(DOMAIN triggers) = 1


\* ---- what the engine records
\* Invocation i ran its process to the end, every query it issued was accepted,
\* and it is over.
EndedWithStore(i) ==
  /\ inv[i].pc = "resolved"
  /\ inv[i].proc = "exited"
  /\ ~inv[i].lost
  /\ inv[i].runId \in DOMAIN runs

\* C15: for a completed execution with the store available, the output stored
\* in the JobRun row when the invocation ends is the trimmed concatenation of
\* stdout and stderr, or the placeholder when that is empty, whatever the
\* process outcome.
C15_StoredOutputIsTrimmedOutput ==
  \A i \in DOMAIN inv :
    EndedWithStore(i) => runs[inv[i].runId].output = StoredOutput(inv[i].output)

\* C16: for a completed execution with the store available, the final status
\* is success if and only if the process exited cleanly, and error for a
\* non-zero exit and for a timeout alike.
C16_SuccessIffCleanExit ==
  \A i \in DOMAIN inv :
    EndedWithStore(i) =>
      /\ runs[inv[i].runId].status \in Terminal
      /\ runs[inv[i].runId].status = "success" <=> inv[i].exit = "exit0"
      /\ inv[i].exit \in {"nonzero", "timeout"}
           => runs[inv[i].runId].status = "error"

\* Two executions are over with the store available, one ended by a non-zero
\* exit and one by the timeout, both recorded as error.
C16_Witness ==
  \E i, j \in DOMAIN inv :
    /\ EndedWithStore(i) /\ inv[i].exit = "timeout"
    /\ EndedWithStore(j) /\ inv[j].exit = "nonzero"
    /\ runs[inv[i].runId].status = "error"
    /\ runs[inv[j].runId].status = "error"


\* ---- overlapping invocations
\* Each invocation whose INSERT succeeded has a row of its own, of its job,
\* which is not the row of another invocation nor the row a run request made.
OwnRows ==
  \A i \in DOMAIN inv :
    inv[i].res # Null =>
      /\ \A j \in DOMAIN inv : j # i => inv[j].res # inv[i].res /\ inv[j].queued # inv[i].res
      /\ inv[i].res \in DOMAIN runs => runs[inv[i].res].job_id = DbInt(inv[i].job.id)

\* A row that this step changes is changed by a step of the invocation that
\* created it; a row that this step creates with status running is the row of
\* the invocation that this step starts.
WritesOwnRowOnly ==
  /\ \A r \in DOMAIN runs \cap DOMAIN runs' :
       runs'[r] # runs[r] =>
         \E i \in DOMAIN inv : inv[i].runId = r /\ inv'[i] # inv[i]
  /\ \A r \in DOMAIN runs' \ DOMAIN runs :
       runs'[r].status = "running" =>
         /\ Len(inv') = Len(inv) + 1
         /\ inv'[Len(inv')].res = r

\* C17: when invocations of the engine for one job overlap, each creates its
\* own JobRun row and every finalizing write of an invocation goes to the row
\* that invocation created, under every interleaving.
C17_OverlappingRunsWriteOwnRows ==
  []OwnRows /\ [][WritesOwnRowOnly]_vars

\* Invocation j of a job started after invocation i of the same job and is
\* over, its row finalized, while i's process is still running.
C17_Witness ==
  \E i, j \in DOMAIN inv :
    /\ i < j
    /\ inv[i].job.id = inv[j].job.id
    /\ inv[i].pc = "exec"
    /\ runs[inv[i].runId].status = "running"
    /\ EndedWithStore(j)
    /\ runs[inv[j].runId].status \in Terminal


\* ---- failures of the sweep
\* C18 as claimed: cleanupOldRuns never throws, and a sweep one of whose
\* queries failed has deleted no JobRun row.
C18_FailedSweepDeletedNothing ==
  /\ "cleanupOldRuns" \notin uncaught
  /\ sweep.pc = "failed" => sweep.res = 0

\* A sweep whose failure is being handled deleted rows only if the failed
\* query is the COUNT that follows the DELETE, which VERBOSE alone issues.
FailedSweepDeletedOnlyBeforeCount ==
  /\ "cleanupOldRuns" \notin uncaught
  /\ (sweep.pc = "failed" /\ sweep.res > 0) => VERBOSE

\* The steps of a sweep leave the registry and the triggers alone and throw
\* nothing; the step of a failing query changes no row, and deletes none when
\* the query is the first COUNT or the DELETE; a failed sweep ends idle, where
\* the daily trigger fires it again.
FailingSweepSteps ==
  SweepSteps =>
    /\ UNCHANGED <<scheduledJobs, triggers, uncaught>>
    /\ sweep'.pc = "failed" => runs' = runs
    /\ (sweep'.pc = "failed" /\ sweep.pc \in {"idle", "before"}) => sweep'.res = 0
    /\ (sweep'.pc = "failed" /\ sweep.pc = "delete") => sweep'.res = sweep.res
    /\ sweep.pc = "failed" => sweep'.pc = "idle" /\ runs' = runs

\* C18 as amended: cleanupOldRuns never throws; a failing query is caught and
\* logged, the Task Registry is unchanged and the sweep becomes ready for its
\* next firing; no JobRun row is deleted or changed by that sweep, unless the
\* failing query is the COUNT issued after the DELETE when VERBOSE, in which
\* case the rows the DELETE removed stay removed.
C18_SweepFailureIsContained ==
  []FailedSweepDeletedOnlyBeforeCount /\ [][FailingSweepSteps]_vars

\* A sweep has failed with a run older than 30 days in the table, still there.
C18_Witness ==
  /\ sweep.pc = "failed"
  /\ sweep.res = 0
  /\ \E r \in DOMAIN runs : Expired(runs[r])


\* ---- the rows of a manual run
\* C19: the run id the manual run request returned (the row it inserted with
\* status queued) leaves queued: once the execution the request triggered has
\* completed with the store available, that row has a terminal status and a
\* finished_at.
C19_QueuedRunIsFinalized ==
  \A i \in DOMAIN inv :
    (inv[i].caller = 0 /\ inv[i].queued \in DOMAIN runs /\ EndedWithStore(i))
    => /\ runs[inv[i].queued].status \in Terminal
       /\ runs[inv[i].queued].finished_at # Null

\* ---- running rows are finalized
\* The row of invocation i is terminal once its process has ended and the store
\* has accepted the finalizing UPDATE.
AcceptedRunsAreTerminal ==
  \A i \in DOMAIN inv :
    (inv[i].proc = "exited" /\ ~inv[i].lost /\ inv[i].runId \in DOMAIN runs)
    => runs[inv[i].runId].status \in Terminal

\* Only an invocation's own steps move it: a step that stops a trigger, pauses
\* a job or starts another invocation leaves it and its process as they are.
OthersLeaveInvocationsAlone ==
  (triggers' # triggers \/ scheduledJobs' # scheduledJobs \/ jobs' # jobs
   \/ Len(inv') # Len(inv))
  => \A i \in DOMAIN inv : inv'[i] = inv[i]

\* Invocation i has inserted its row with status running, and the row is not
\* yet final.
RunningRow(i) ==
  /\ i \in DOMAIN inv
  /\ inv[i].res \in DOMAIN runs
  /\ runs[inv[i].res].status = "running"
  /\ inv[i].proc # "exited"

\* The row of invocation i is final, or the store refused the finalizing UPDATE.
FinalOrRefused(i) ==
  /\ i \in DOMAIN inv
  /\ \/ inv[i].lost
     \/ inv[i].res \in DOMAIN runs /\ runs[inv[i].res].status \in Terminal

\* C20: every row the engine inserted with status running reaches success or
\* error, provided the process completes and the store accepts the finalizing
\* UPDATE, also when cancelJob, a pause or another firing of the job happens
\* while the process is in flight: none of them interrupts the invocation.
C20_RunningRowsAreFinalized ==
  /\ []AcceptedRunsAreTerminal
  /\ [][OthersLeaveInvocationsAlone]_vars
  /\ \A i \in Invs : RunningRow(i) ~> FinalOrRefused(i)

\* The job was paused and its trigger stopped after the invocation started,
\* and the invocation still finalized its row.
C20_Witness ==
  \E i \in DOMAIN inv :
    /\ inv[i].caller # 0
    /\ inv[i].caller \notin DOMAIN triggers
    /\ inv[i].job.id \notin DOMAIN scheduledJobs
    /\ jobs[DbInt(inv[i].job.id)].status = "paused"
    /\ EndedWithStore(i)
    /\ runs[inv[i].runId].status \in Terminal

====
